---------------------------- MODULE Spec2Model ----------------------------
(***************************************************************************)
(* The housing dashboard of src/app.py as a state machine.                 *)
(*                                                                         *)
(* The script is re-executed from top to bottom on every user interaction. *)
(* One run is the chain of steps                                           *)
(*   load -> sidebar -> year -> filter -> kpis -> charts -> correlation    *)
(* and ends in "done", or in "failed" at the first statement that raises.  *)
(* Between runs the process keeps the st.cache_data entry of load_data     *)
(* (cache) and the widget state of the session (ss).                       *)
(*                                                                         *)
(* Encoding of values:                                                     *)
(*   price, bathrooms  fixed point, the number of halves (3 is 1.5)        *)
(*   bedrooms, sqft_living, year   integers                                *)
(*   city, statezip    the rank of the string in alphabetical order        *)
(*   date              yyyymm, or NaN when the date is missing             *)
(***************************************************************************)
EXTENDS Integers, Sequences, FiniteSets

\* ------------------------------------------------------------ bounds
MaxRows == 2
MaxRuns == 2
ExtraCities == 1

\* ------------------------------------------------- program constants
TopN == 20
NaN == -1

Required == {"price", "bedrooms", "bathrooms", "sqft_living", "city", "statezip"}
NumericColumns == {"price", "bedrooms", "bathrooms", "sqft_living", "year"}

\* --------------------------------------------------- numeric helpers
Min(a, b) == IF a <= b THEN a ELSE b

\* int(x) / .astype(int) of a non-negative fixed-point value: truncation.
ToInt(h) == h \div 2

\* An integer option compared with a float column: the same number in halves.
AsFloat(n) == 2 * n

\* Python's round() / the ".0f" format of num/den: round half to even.
RoundHalfEven(num, den) ==
    LET q == num \div den
        r == num % den
    IN  IF 2 * r < den THEN q
        ELSE IF 2 * r > den THEN q + 1
        ELSE IF q % 2 = 0 THEN q ELSE q + 1

RECURSIVE SumSeq(_)
SumSeq(s) == IF s = <<>> THEN 0 ELSE Head(s) + SumSeq(Tail(s))

Column(rows, c) == [i \in 1..Len(rows) |-> rows[i][c]]

SetMin(S) == CHOOSE x \in S : \A y \in S : x <= y
SetMax(S) == CHOOSE x \in S : \A y \in S : x >= y

\* sorted(...) of a set of numbers.
RECURSIVE Sorted(_)
Sorted(S) == IF S = {} THEN <<>> ELSE <<SetMin(S)>> \o Sorted(S \ {SetMin(S)})

\* The values of a sequence in ascending order, duplicates kept.
RECURSIVE SortSeq(_)
SortSeq(s) ==
    IF s = <<>> THEN <<>>
    ELSE LET i == CHOOSE k \in 1..Len(s) : \A j \in 1..Len(s) : s[k] <= s[j]
         IN  <<s[i]>> \o SortSeq([j \in 1..(Len(s) - 1) |-> IF j < i THEN s[j] ELSE s[j + 1]])

\* --------------------------------------------------------- load_data
NoData == [columns |-> {}, rows |-> <<>>]
NoCache == [set |-> FALSE, value |-> NoData]

Year(d) == IF d = NaN THEN NaN ELSE d \div 100
Month(d) == d

\* The dataframe load_data returns for a readable file: with a date column,
\* year and month are derived from it; without one they do not exist.
ReadCsv(f) ==
    LET dated == "date" \in f.columns
    IN  [columns |-> IF dated THEN f.columns \cup {"year", "month"} ELSE f.columns,
         rows |-> [i \in 1..Len(f.rows) |->
                     [price |-> f.rows[i].price,
                      bedrooms |-> f.rows[i].bedrooms,
                      bathrooms |-> f.rows[i].bathrooms,
                      sqft_living |-> f.rows[i].sqft_living,
                      city |-> f.rows[i].city,
                      statezip |-> f.rows[i].statezip,
                      year |-> IF dated THEN Year(f.rows[i].date) ELSE NaN,
                      month |-> IF dated THEN Month(f.rows[i].date) ELSE NaN]]]

CacheHitNever(c) == FALSE
\* st.cache_data: the body of load_data runs only when nothing is memoized.
CacheHit(c) == c.set

\* ----------------------------------------------------- sidebar widgets
WidgetColumns == <<"price", "bedrooms", "bathrooms", "city", "statezip">>
WidgetLabels == <<"Price range", "Bedrooms", "Bathrooms", "City", "State / Zip">>

\* The first widget whose column the dataframe lacks (df[...] raises KeyError
\* there), 0 when none does.
FirstMissing(columns) ==
    IF \A i \in 1..Len(WidgetColumns) : WidgetColumns[i] \in columns THEN 0
    ELSE CHOOSE i \in 1..Len(WidgetColumns) :
            /\ WidgetColumns[i] \notin columns
            /\ \A j \in 1..(i - 1) : WidgetColumns[j] \in columns

Values(rows, c) == {rows[i][c] : i \in 1..Len(rows)}

price_min(rows) == ToInt(SetMin(Values(rows, "price")))
price_max(rows) == ToInt(SetMax(Values(rows, "price")))

\* st.sidebar.slider(min_value=..., max_value=...) raises
\* StreamlitAPIException unless min_value is less than max_value; the script
\* guards its year slider against this (len(years) > 1) but not its price
\* slider.
SliderAccepts(lo, hi) == lo < hi

\* sorted(df[c].dropna().astype(int).unique()): the options of a multiselect.
\* Bedrooms are whole numbers, which astype(int) leaves as they are; bathrooms
\* are truncated.
IntOptions(rows, c) == {rows[i][c] : i \in 1..Len(rows)}
TruncOptions(rows, c) == {ToInt(rows[i][c]) : i \in 1..Len(rows)}
Options(rows, c) == {rows[i][c] : i \in 1..Len(rows)}

\* sorted(df["year"].dropna().unique())
Years(rows) == Sorted({rows[i].year : i \in 1..Len(rows)} \ {NaN})

\* --------------------------------------------------------- apply filters
PriceMaskStrict(r, range) == r.price >= AsFloat(range[1]) /\ r.price < AsFloat(range[2])
\* (df["price"] >= price_range[0]) & (df["price"] <= price_range[1])
PriceMask(r, range) == r.price >= AsFloat(range[1]) /\ r.price <= AsFloat(range[2])

NotIsin(v, values) == v \notin values
\* Series.isin: the value equals one of the given values.
Isin(v, values) == v \in values

\* A comparison with a missing year is False.
YearMask(r, range) == r.year # NaN /\ r.year >= range[1] /\ r.year <= range[2]

ApplyFilters(data, pr, beds, baths, cities, zips, yr) ==
    LET InPrice(r) == PriceMask(r, pr)
        InBeds(r) == Isin(r.bedrooms, beds)
        InBaths(r) == Isin(r.bathrooms, {AsFloat(o) : o \in baths})
        InCity(r) == Isin(r.city, cities)
        InZip(r) == Isin(r.statezip, zips)
        InYear(r) == YearMask(r, yr)
        f0 == SelectSeq(data.rows, InPrice)
        f1 == IF beds # {} THEN SelectSeq(f0, InBeds) ELSE f0
        f2 == IF baths # {} THEN SelectSeq(f1, InBaths) ELSE f1
        f3 == IF cities # {} THEN SelectSeq(f2, InCity) ELSE f2
        f4 == IF zips # {} THEN SelectSeq(f3, InZip) ELSE f3
    IN  IF yr # <<>> /\ "year" \in data.columns THEN SelectSeq(f4, InYear) ELSE f4

\* ------------------------------------------------------------------ KPIs
NotAvailable == <<"N/A">>
Nan == <<"nan">>
Num(n) == <<"num", n>>

\* int(filtered_df["price"].mean()) if not filtered_df.empty else "N/A"
AvgPrice(rows) ==
    IF rows = <<>> THEN NotAvailable
    ELSE Num(SumSeq(Column(rows, "price")) \div (2 * Len(rows)))

\* f"{filtered_df['sqft_living'].median():,.0f}": no guard for an empty frame,
\* whose median is NaN and is formatted as "nan".
MedianSqft(rows) ==
    IF rows = <<>> THEN Nan
    ELSE LET s == SortSeq(Column(rows, "sqft_living"))
             n == Len(s)
         IN  IF n % 2 = 1 THEN Num(s[(n + 1) \div 2])
             ELSE Num(RoundHalfEven(s[n \div 2] + s[n \div 2 + 1], 2))

\* int(round(filtered_df["bedrooms"].mean())) if not filtered_df.empty else "N/A"
AvgBedrooms(rows) ==
    IF rows = <<>> THEN NotAvailable
    ELSE Num(RoundHalfEven(SumSeq(Column(rows, "bedrooms")), Len(rows)))

AvgBathrooms(rows) ==
    IF rows = <<>> THEN NotAvailable
    ELSE Num(RoundHalfEven(SumSeq(Column(rows, "bathrooms")), 2 * Len(rows)))

\* ------------------------------------------------------------ city chart
\* groupby("city")["price"].mean().reset_index(): one row per city present, in
\* key order; the mean is kept exact as sum / n (in halves).
GroupByCity(rows) ==
    LET keys == Sorted(Values(rows, "city"))
        Of(c) == SelectSeq(rows, LAMBDA r : r.city = c)
    IN  [k \in 1..Len(keys) |->
            [city |-> keys[k],
             sum |-> SumSeq(Column(Of(keys[k]), "price")),
             n |-> Len(Of(keys[k]))]]

MeanGe(g, h) == g.sum * h.n >= h.sum * g.n

\* sort_values("price", ascending=False) with the default, unstable sort: every
\* arrangement with non-increasing means; rows of equal mean come in any order.
RECURSIVE DescendingOrders(_)
DescendingOrders(S) ==
    IF S = {} THEN {<<>>}
    ELSE UNION {{<<g>> \o t : t \in DescendingOrders(S \ {g})} :
                   g \in {x \in S : \A y \in S : MeanGe(x, y)}}

SortValues(groups) == DescendingOrders({groups[i] : i \in 1..Len(groups)})

\* DataFrame.head(n)
head(s, n) == SubSeq(s, 1, Min(n, Len(s)))

CityPrice(rows) == {head(s, TopN) : s \in SortValues(GroupByCity(rows))}

\* ----------------------------------------------------------- correlation
\* numeric_cols = filtered_df.select_dtypes(include=np.number)
NumericCols(columns) == columns \cap NumericColumns

\* not numeric_cols.empty and len(numeric_cols.columns) > 1; a frame is empty
\* when it has no rows or no columns.
CorrelationShown(columns, rows) ==
    /\ ~(Len(rows) = 0 \/ NumericCols(columns) = {})
    /\ Cardinality(NumericCols(columns)) > 1

\* ================================================================ state
VARIABLES
    file,               \* the source file: exists, columns, rows
    cache,              \* the memoized result of load_data
    fileReads,          \* completed reads of the source file
    runs,               \* script runs started so far
    pc,                 \* position of the current run
    err,                \* the exception that ended the run, "" when none
    rendered,           \* widgets, metrics and charts rendered by the current run
    ss,                 \* widget state of the session (user selections)
    options,            \* what the rendered widgets offer
    df,
    price_range,
    bedrooms_filter,
    bathrooms_filter,
    city_filter,
    state_filter,
    year_range,         \* <<>> is None
    filtered_df,
    kpi,
    city_price,
    corr

process == <<file, cache, fileReads, runs, ss>>
widgets == <<options, price_range, bedrooms_filter, bathrooms_filter, city_filter, state_filter>>
views == <<kpi, city_price, corr>>
vars == <<file, cache, fileReads, runs, pc, err, rendered, ss, options, df,
          price_range, bedrooms_filter, bathrooms_filter, city_filter,
          state_filter, year_range, filtered_df, kpi, city_price, corr>>

NoSelection == [price |-> <<>>, bedrooms |-> {}, bathrooms |-> {}, city |-> {},
                statezip |-> {}, year |-> <<>>]
NoOptions == [price |-> <<>>, bedrooms |-> {}, bathrooms |-> {}, city |-> {},
              statezip |-> {}, year |-> <<>>]
NoKpi == [price |-> <<>>, sqft |-> <<>>, bedrooms |-> <<>>, bathrooms |-> <<>>]

\* ----------------------------------------------------------- input files
Base == [price |-> 2, bedrooms |-> 2, bathrooms |-> 2, sqft_living |-> 10,
         city |-> 1, statezip |-> 1, date |-> 201405]

Fields == {"price", "bedrooms", "bathrooms", "sqft_living", "city", "statezip", "date"}

RowSpace == [price : {2, 3, 4, 5}, bedrooms : {2, 3}, bathrooms : {2, 3},
             sqft_living : {10, 13}, city : {1, 2}, statezip : {1, 2},
             date : {NaN, 201405, 201507}]

BaseUndated == [Base EXCEPT !.date = NaN]

\* Rows that differ from the row b in at most one field.
Rows(b) == {r \in RowSpace : Cardinality({f \in Fields : r[f] # b[f]}) <= 1}

\* The row sets a file draws its rows from: rows around Base, or rows around
\* the same row without a date (a file may have no usable date at all). A file
\* without a date column carries no dates.
RowsFor(columns) ==
    IF "date" \in columns THEN {Rows(Base), Rows(BaseUndated)}
    ELSE {{r \in Rows(BaseUndated) : r.date = NaN}}

\* All required columns, or all but one of them; the date column is optional.
ColumnSets ==
    {(Required \ m) \cup d : m \in {{}} \cup {{c} : c \in Required}, d \in {{}, {"date"}}}

MissingFile == [exists |-> FALSE, columns |-> {}, rows |-> <<>>]

Files ==
    {MissingFile} \cup
    UNION {UNION {UNION {{[exists |-> TRUE, columns |-> cs, rows |-> rs] :
                              rs \in [1..n -> R]} : n \in 1..MaxRows} :
                      R \in RowsFor(cs)} :
               cs \in ColumnSets}

\* Files of many cities, one row per city (and a second row for the last city,
\* of another zip code, when dup, so that a State / Zip selection changes which
\* records and which cities are left): the rows come in alphabetical order of
\* city or in reverse; city c has price rank ((c + shift) mod N) + 1, and city
\* tie shares the rank of its successor. Ties are placed in the files in reverse order, where the order of
\* first appearance and the alphabetical order of the grouped keys differ.
NumCities == TopN + ExtraCities

Rank(c, shift) == ((c + shift) % NumCities) + 1

CityRows(alphabetical, shift, tie, dup) ==
    LET one == [i \in 1..NumCities |->
                  LET c == IF alphabetical THEN i ELSE NumCities + 1 - i
                      p == IF c = tie THEN Rank((c % NumCities) + 1, shift) ELSE Rank(c, shift)
                  IN  [Base EXCEPT !.city = c, !.price = AsFloat(p)]]
    IN  IF dup THEN Append(one, [Base EXCEPT !.city = NumCities, !.statezip = 2,
                                             !.price = AsFloat(NumCities + 1)])
        ELSE one

CityFiles ==
    {[exists |-> TRUE, columns |-> Required \cup {"date"},
      rows |-> CityRows(a, s, t, d)] :
        a \in BOOLEAN, s \in 0..(NumCities - 1), t \in 0..NumCities, d \in BOOLEAN}
    \ {[exists |-> TRUE, columns |-> Required \cup {"date"},
         rows |-> CityRows(TRUE, s, t, d)] :
           s \in 0..(NumCities - 1), t \in 1..NumCities, d \in BOOLEAN}

\* ================================================================= Init
Start(f) ==
    /\ file = f
    /\ cache = NoCache
    /\ fileReads = 0
    /\ runs = 1
    /\ pc = "load"
    /\ err = ""
    /\ rendered = {}
    /\ ss = NoSelection
    /\ options = NoOptions
    /\ df = NoData
    /\ price_range = <<>>
    /\ bedrooms_filter = {}
    /\ bathrooms_filter = {}
    /\ city_filter = {}
    /\ state_filter = {}
    /\ year_range = <<>>
    /\ filtered_df = <<>>
    /\ kpi = NoKpi
    /\ city_price = <<>>
    /\ corr = ""

Init == \E f \in Files : Start(f)

InitCity == \E f \in CityFiles : Start(f)

Raise(e) ==
    /\ pc' = "failed"
    /\ err' = e

\* ============================================================== actions
\* df = load_data()
LoadData ==
    /\ pc = "load"
    /\ UNCHANGED <<file, runs, ss, rendered, widgets, year_range, filtered_df, views>>
    /\ IF CacheHit(cache)
       THEN /\ df' = cache.value
            /\ pc' = "sidebar"
            /\ UNCHANGED <<cache, fileReads, err>>
       ELSE IF ~file.exists
       THEN /\ Raise("FileNotFoundError")
            /\ UNCHANGED <<cache, fileReads, df>>
       ELSE /\ df' = ReadCsv(file)
            /\ cache' = [set |-> TRUE, value |-> ReadCsv(file)]
            /\ fileReads' = fileReads + 1
            /\ pc' = "sidebar"
            /\ UNCHANGED err

\* The price slider and the four multiselects. A widget returns the session's
\* selection, or its default when the user has not touched it. The statement
\* of widget k raises when the dataframe lacks its column (KeyError) and, for
\* the slider, when its bounds are refused; the widgets before it are rendered.
SidebarFilters ==
    /\ pc = "sidebar"
    /\ UNCHANGED <<process, df, year_range, filtered_df, views>>
    /\ LET missing == FirstMissing(df.columns)
           lo == price_min(df.rows)
           hi == price_max(df.rows)
           refused == missing # 1 /\ ~SliderAccepts(lo, hi)
           k == IF refused THEN 1 ELSE missing
           Reached(i) == k = 0 \/ k > i
       IN  /\ rendered' = {WidgetLabels[i] : i \in {j \in 1..Len(WidgetLabels) : Reached(j)}}
           /\ options' =
                [price |-> IF Reached(1) THEN <<lo, hi>> ELSE <<>>,
                 bedrooms |-> IF Reached(2) THEN IntOptions(df.rows, "bedrooms") ELSE {},
                 bathrooms |-> IF Reached(3) THEN TruncOptions(df.rows, "bathrooms") ELSE {},
                 city |-> IF Reached(4) THEN Options(df.rows, "city") ELSE {},
                 statezip |-> IF Reached(5) THEN Options(df.rows, "statezip") ELSE {},
                 year |-> <<>>]
           /\ price_range' = IF ~Reached(1) THEN <<>>
                             ELSE IF ss.price = <<>> THEN <<lo, hi>> ELSE ss.price
           /\ bedrooms_filter' = IF Reached(2) THEN ss.bedrooms ELSE {}
           /\ bathrooms_filter' = IF Reached(3) THEN ss.bathrooms ELSE {}
           /\ city_filter' = IF Reached(4) THEN ss.city ELSE {}
           /\ state_filter' = IF Reached(5) THEN ss.statezip ELSE {}
           /\ IF k = 0
              THEN pc' = "year" /\ UNCHANGED err
              ELSE IF refused THEN Raise("StreamlitAPIException")
              ELSE Raise("KeyError")

\* The year slider, shown only when the data spans more than one year.
YearFilter ==
    /\ pc = "year"
    /\ UNCHANGED <<process, df, price_range, bedrooms_filter, bathrooms_filter,
                   city_filter, state_filter, filtered_df, views>>
    /\ IF "year" \in df.columns
       THEN LET years == Years(df.rows)
            IN  IF Len(years) > 1
                THEN /\ year_range' = IF ss.year = <<>>
                                      THEN <<years[1], years[Len(years)]>>
                                      ELSE ss.year
                     /\ options' = [options EXCEPT !.year = <<years[1], years[Len(years)]>>]
                     /\ rendered' = rendered \cup {"Year range"}
                     /\ pc' = "filter"
                     /\ UNCHANGED err
                ELSE IF years = <<>>
                THEN /\ Raise("IndexError")
                     /\ UNCHANGED <<year_range, options, rendered>>
                ELSE /\ year_range' = <<years[1], years[1]>>
                     /\ rendered' = rendered \cup {"Year info"}
                     /\ pc' = "filter"
                     /\ UNCHANGED <<options, err>>
       ELSE /\ year_range' = <<>>
            /\ pc' = "filter"
            /\ UNCHANGED <<options, rendered, err>>

\* filtered_df = df[...] and its successive restrictions.
Filter ==
    /\ pc = "filter"
    /\ filtered_df' = ApplyFilters(df, price_range, bedrooms_filter, bathrooms_filter,
                                   city_filter, state_filter, year_range)
    /\ pc' = "kpis"
    /\ UNCHANGED <<process, err, rendered, widgets, df, year_range, views>>

\* The four metrics, in order; the second reads sqft_living.
KPIs ==
    /\ pc = "kpis"
    /\ UNCHANGED <<process, widgets, df, year_range, filtered_df, city_price, corr>>
    /\ IF "sqft_living" \in df.columns
       THEN /\ kpi' = [price |-> AvgPrice(filtered_df),
                       sqft |-> MedianSqft(filtered_df),
                       bedrooms |-> AvgBedrooms(filtered_df),
                       bathrooms |-> AvgBathrooms(filtered_df)]
            /\ rendered' = rendered \cup {"Average Price $", "Median Area in Sqft",
                                          "Avg Bedrooms", "Avg Bathrooms"}
            /\ pc' = "charts"
            /\ UNCHANGED err
       ELSE /\ kpi' = [kpi EXCEPT !.price = AvgPrice(filtered_df)]
            /\ rendered' = rendered \cup {"Average Price $"}
            /\ Raise("KeyError")

\* The scatter plot, the bar chart by bedrooms and the bar chart by city.
Charts ==
    /\ pc = "charts"
    /\ city_price' \in CityPrice(filtered_df)
    /\ rendered' = rendered \cup {"Price vs Living Area", "Average Price by Bedrooms",
                                  "Average Price by City (Top 20)"}
    /\ pc' = "correlation"
    /\ UNCHANGED <<process, err, widgets, df, year_range, filtered_df, kpi, corr>>

\* The correlation heat map or the note that replaces it, then the raw data.
Correlation ==
    /\ pc = "correlation"
    /\ IF CorrelationShown(df.columns, filtered_df)
       THEN /\ corr' = "matrix"
            /\ rendered' = rendered \cup {"Feature Correlation", "Raw data"}
       ELSE /\ corr' = "info"
            /\ rendered' = rendered \cup {"Not enough numeric data", "Raw data"}
    /\ pc' = "done"
    /\ UNCHANGED <<process, err, widgets, df, year_range, filtered_df, kpi, city_price>>

\* A changed widget value re-executes the script with a fresh namespace.
Rerun(selection) ==
    /\ pc \in {"done", "failed"}
    /\ runs < MaxRuns
    /\ selection # ss
    /\ ss' = selection
    /\ runs' = runs + 1
    /\ pc' = "load"
    /\ err' = ""
    /\ rendered' = {}
    /\ options' = NoOptions
    /\ df' = NoData
    /\ price_range' = <<>>
    /\ bedrooms_filter' = {}
    /\ bathrooms_filter' = {}
    /\ city_filter' = {}
    /\ state_filter' = {}
    /\ year_range' = <<>>
    /\ filtered_df' = <<>>
    /\ kpi' = NoKpi
    /\ city_price' = <<>>
    /\ corr' = ""
    /\ UNCHANGED <<file, cache, fileReads>>

\* The pairs a range slider with the given bounds and step 1 can return.
Ranges(bounds) ==
    {r \in (bounds[1]..bounds[2]) \X (bounds[1]..bounds[2]) : r[1] <= r[2]}

MovePriceSlider ==
    /\ "Price range" \in rendered
    /\ \E r \in Ranges(options.price) : Rerun([ss EXCEPT !.price = r])

SelectBedrooms ==
    /\ "Bedrooms" \in rendered
    /\ \E s \in SUBSET options.bedrooms : Rerun([ss EXCEPT !.bedrooms = s])

SelectBathrooms ==
    /\ "Bathrooms" \in rendered
    /\ \E s \in SUBSET options.bathrooms : Rerun([ss EXCEPT !.bathrooms = s])

SelectCity ==
    /\ "City" \in rendered
    /\ \E s \in SUBSET options.city : Rerun([ss EXCEPT !.city = s])

SelectStateZip ==
    /\ "State / Zip" \in rendered
    /\ \E s \in SUBSET options.statezip : Rerun([ss EXCEPT !.statezip = s])

MoveYearSlider ==
    /\ "Year range" \in rendered
    /\ \E r \in Ranges(options.year) : Rerun([ss EXCEPT !.year = r])

Run ==
    \/ LoadData
    \/ SidebarFilters
    \/ YearFilter
    \/ Filter
    \/ KPIs
    \/ Charts
    \/ Correlation

Next ==
    \/ Run
    \/ MovePriceSlider
    \/ SelectBedrooms
    \/ SelectBathrooms
    \/ SelectCity
    \/ SelectStateZip
    \/ MoveYearSlider

Spec == Init /\ [][Next]_vars

\* The script over a file of many cities, the user touching the State / Zip
\* multiselect only.
NextCity ==
    \/ Run
    \/ SelectStateZip

SpecCity == InitCity /\ [][NextCity]_vars

\* ============================================================ properties
\* The run has computed filtered_df.
Filtered ==
    \/ pc \in {"kpis", "charts", "correlation", "done"}
    \/ pc = "failed" /\ "Average Price $" \in rendered

\* The dataframe has been loaded in this run.
Loaded == df # NoData

\* The source file exists and has every required column.
ValidSource == file.exists /\ Required \subseteq file.columns

\* The predicates of the Constraint Set of the current run, as section 4.2 of
\* the specification states them.
InPriceRange(r) == 2 * price_range[1] <= r.price /\ r.price <= 2 * price_range[2]
InBedrooms(r) == bedrooms_filter # {} => r.bedrooms \in bedrooms_filter
InBathrooms(r) == bathrooms_filter # {} => \E o \in bathrooms_filter : r.bathrooms = 2 * o
InCities(r) == city_filter # {} => r.city \in city_filter
InStateZips(r) == state_filter # {} => r.statezip \in state_filter
InYearRange(r) ==
    (year_range # <<>> /\ "year" \in df.columns) =>
        (r.year # NaN /\ year_range[1] <= r.year /\ r.year <= year_range[2])
Satisfies(r) ==
    /\ InPriceRange(r)
    /\ InBedrooms(r)
    /\ InBathrooms(r)
    /\ InCities(r)
    /\ InStateZips(r)
    /\ InYearRange(r)
SatisfiesButYear(r) ==
    /\ InPriceRange(r)
    /\ InBedrooms(r)
    /\ InBathrooms(r)
    /\ InCities(r)
    /\ InStateZips(r)

\* C1: the filtered dataset is exactly the records of the dataset, in order,
\* that satisfy every active predicate of the Constraint Set: none that
\* satisfies them is dropped and none that violates one is kept.
C1_FilterIsConjunction == Filtered => filtered_df = SelectSeq(df.rows, Satisfies)

\* C1 witness: a run whose bedrooms selection keeps some records and drops others.
C1_Witness ==
    /\ Filtered
    /\ bedrooms_filter # {}
    /\ filtered_df # <<>>
    /\ Len(filtered_df) < Len(df.rows)

\* C2: full-range identity: with no widget touched (the default Constraint
\* Set) the filtered dataset is the whole loaded dataset.
C2_FullRangeIdentity ==
    (ValidSource /\ Filtered /\ ss = NoSelection) => filtered_df = df.rows

\* C3: empty-safety: with an empty filtered dataset the four KPIs are the
\* not-available placeholder, the correlation view is the not-enough-data
\* note, and the run does not raise.
C3_EmptySafety ==
    (ValidSource /\ Filtered /\ filtered_df = <<>>) =>
        /\ err = ""
        /\ pc \in {"charts", "correlation", "done"} =>
              /\ kpi.price = NotAvailable
              /\ kpi.sqft = NotAvailable
              /\ kpi.bedrooms = NotAvailable
              /\ kpi.bathrooms = NotAvailable
        /\ pc = "done" => corr = "info"

\* C4: with a date column of which every value is missing, building the year
\* constraint does not raise, and no record is excluded because of its year.
C4_NoUsableYear ==
    (ValidSource /\ Loaded /\ "year" \in df.columns /\ \A i \in 1..Len(df.rows) : df.rows[i].year = NaN) =>
        /\ err # "IndexError"
        /\ Filtered => filtered_df = SelectSeq(df.rows, SatisfiesButYear)

\* C5: a missing file, or a file that lacks a required column, fails the run
\* inside the load step, before a dataframe is returned and with nothing
\* rendered; no run gets past the load step.
C5_LoadFailsFirst ==
    ~ValidSource =>
        /\ pc \in {"load", "failed"}
        /\ rendered = {}
        /\ pc = "failed" => ~Loaded

\* C6: the correlation matrix is shown if and only if the filtered dataset has
\* at least 2 numeric columns and at least 2 records.
C6_CorrelationGuard ==
    (ValidSource /\ pc = "done") =>
        (corr = "matrix" <=>
            (Cardinality(df.columns \cap NumericColumns) >= 2 /\ Len(filtered_df) >= 2))

\* The cities of the filtered dataset and, per city, its records.
FilteredCities == {filtered_df[i].city : i \in 1..Len(filtered_df)}
RecordsOf(c) == SelectSeq(filtered_df, LAMBDA r : r.city = c)
PriceSum(c) == SumSeq(Column(RecordsOf(c), "price"))
FirstSeen(c) == CHOOSE i \in 1..Len(filtered_df) :
                    filtered_df[i].city = c /\ \A j \in 1..(i - 1) : filtered_df[j].city # c
ShownCities == {city_price[i].city : i \in 1..Len(city_price)}
CityViewBuilt == pc \in {"correlation", "done"}

\* mean(c) <= mean of entry e, = likewise, by cross-multiplication.
MeanLe(c, e) == PriceSum(c) * e.n <= e.sum * Len(RecordsOf(c))
MeanEq(c, e) == PriceSum(c) * e.n = e.sum * Len(RecordsOf(c))

\* The top-20 view has min(20, number of cities) entries, each a different
\* city of the filtered dataset with the mean price of its records, in order
\* of non-increasing mean, and no city left out has a mean above that of a
\* city shown.
C7_TopCities ==
    CityViewBuilt =>
        /\ Len(city_price) = Min(20, Cardinality(FilteredCities))
        /\ Cardinality(ShownCities) = Len(city_price)
        /\ \A i \in 1..Len(city_price) :
              /\ city_price[i].city \in FilteredCities
              /\ city_price[i].sum = PriceSum(city_price[i].city)
              /\ city_price[i].n = Len(RecordsOf(city_price[i].city))
        /\ \A i \in 1..Len(city_price) : \A j \in (i + 1)..Len(city_price) :
              MeanLe(city_price[j].city, city_price[i])
        /\ \A c \in FilteredCities \ ShownCities : \A i \in 1..Len(city_price) :
              MeanLe(c, city_price[i])

\* C7: the top-20 view has min(20, number of cities) entries, each a city of
\* the filtered dataset with the mean price of its records, in order of
\* non-increasing mean, no city left out has a mean above that of a city shown,
\* and cities of equal mean are ordered, and chosen at the cut-off, by which
\* city comes first in the filtered dataset.
C7_TopCitiesFirstSeen ==
    /\ C7_TopCities
    /\ CityViewBuilt =>
          /\ \A i \in 1..Len(city_price) : \A j \in (i + 1)..Len(city_price) :
                MeanEq(city_price[j].city, city_price[i]) =>
                    FirstSeen(city_price[i].city) < FirstSeen(city_price[j].city)
          /\ \A c \in FilteredCities \ ShownCities : \A i \in 1..Len(city_price) :
                MeanEq(c, city_price[i]) => FirstSeen(city_price[i].city) < FirstSeen(c)

\* The size of the filtered dataset under a Constraint Set that differs from
\* the current one in a single constraint.
SubRanges(r) == {s \in (r[1]..r[2]) \X (r[1]..r[2]) : s[1] <= s[2]}
SizeWith(pr, beds, baths, cities, zips, yr) ==
    Len(ApplyFilters(df, pr, beds, baths, cities, zips, yr))
RangesNarrowed ==
    /\ \A r \in SubRanges(price_range) :
          SizeWith(r, bedrooms_filter, bathrooms_filter, city_filter, state_filter,
                   year_range) <= Len(filtered_df)
    /\ year_range # <<>> =>
          \A r \in SubRanges(year_range) :
              SizeWith(price_range, bedrooms_filter, bathrooms_filter, city_filter,
                       state_filter, r) <= Len(filtered_df)
SetsNarrowed(beds, baths, cities, zips) ==
    /\ \A s \in beds :
          SizeWith(price_range, s, bathrooms_filter, city_filter, state_filter,
                   year_range) <= Len(filtered_df)
    /\ \A s \in baths :
          SizeWith(price_range, bedrooms_filter, s, city_filter, state_filter,
                   year_range) <= Len(filtered_df)
    /\ \A s \in cities :
          SizeWith(price_range, bedrooms_filter, bathrooms_filter, s, state_filter,
                   year_range) <= Len(filtered_df)
    /\ \A s \in zips :
          SizeWith(price_range, bedrooms_filter, bathrooms_filter, city_filter, s,
                   year_range) <= Len(filtered_df)
Subsets(S) == SUBSET S
NonEmptySubsets(S) == (SUBSET S) \ {{}}

\* C8 (amended): monotonicity: narrowing one constraint of the current
\* Constraint Set, a range to a range it contains or a set-filter to a
\* non-empty subset of it, never yields more records.
C8_Monotone ==
    Filtered =>
        /\ RangesNarrowed
        /\ SetsNarrowed(NonEmptySubsets(bedrooms_filter), NonEmptySubsets(bathrooms_filter),
                        NonEmptySubsets(city_filter), NonEmptySubsets(state_filter))

\* C8 (as claimed): the same for every subset of a set-filter, the empty one
\* included.
C8_MonotoneAnySubset ==
    Filtered =>
        /\ RangesNarrowed
        /\ SetsNarrowed(Subsets(bedrooms_filter), Subsets(bathrooms_filter),
                        Subsets(city_filter), Subsets(state_filter))

\* C8 witness: a selection of two bedroom counts one of which alone keeps
\* strictly fewer records.
C8_Witness ==
    /\ Filtered
    /\ \E s \in NonEmptySubsets(bedrooms_filter) :
          SizeWith(price_range, s, bathrooms_filter, city_filter, state_filter,
                   year_range) < Len(filtered_df)

\* C9: over all runs of one process the source file is read at most once, the
\* memoized dataset never changes once loaded, and every run works on it.
C9_LoadedOnce ==
    [][/\ fileReads' <= 1
       /\ cache.set => cache' = cache
       /\ df' # NoData => (cache'.set /\ df' = cache'.value)]_vars

\* C9 witness: a second run, after a user interaction, has completed on the
\* dataset read by the first.
C9_Witness == runs = 2 /\ pc = "done" /\ fileReads = 1 /\ df = cache.value

\* C10: every option offered by the Bedrooms and Bathrooms multiselects
\* selects something: chosen alone, with the rest at its default, it leaves a
\* non-empty filtered dataset, and every record is selected by some option of
\* each of the two widgets.
C10_OptionsSelect ==
    /\ (ValidSource /\ pc = "year") =>
          \A i \in 1..Len(df.rows) :
              /\ \E o \in options.bedrooms : df.rows[i].bedrooms = o
              /\ \E o \in options.bathrooms : df.rows[i].bathrooms = 2 * o
    /\ (ValidSource /\ Filtered /\ ss.price = <<>> /\ ss.year = <<>> /\ ss.city = {} /\ ss.statezip = {}
          /\ Cardinality(ss.bedrooms) + Cardinality(ss.bathrooms) = 1) =>
          filtered_df # <<>>

=============================================================================
